---- MODULE Spec2Model ----
(***************************************************************************)
(* Cost aggregation engine of costmodel/aggregations.go: vector            *)
(* arithmetic (addVectors, totalVector, roundTimestamp), the pricing       *)
(* resolver (getPriceVectors), the shared-resource classifier, the         *)
(* aggregator (AggregateCostData) and ComputeIdleCoefficient.              *)
(*                                                                         *)
(* float64 values are modelled as exact rationals <<n, d>> with d > 0 in   *)
(* lowest terms; a zero denominator stands for the IEEE results of a       *)
(* division by zero (<<1,0>> = +Inf, <<0,0>> = NaN).  Timestamps are       *)
(* whole seconds.                                                          *)
(***************************************************************************)
EXTENDS Integers, Sequences, FiniteSets, TLC

VARIABLES
    pc,                 \* position of the running call
    xvs, yvs,           \* the two slices handed to addVectors (rounded in place)
    sumXY, sumYX,       \* addVectors(xvs, yvs) and addVectors(yvs, xvs)
    cp,                 \* the cloud.Provider: custom pricing flag, config, load error
    opts,               \* field, subfields and the AggregationOptions of the call
    costData,           \* map id -> CostData handed to AggregateCostData
    pending,            \* ids the range loop has not visited yet
    aggregations,       \* map key -> Aggregation
    sharedResourceCost, \* running pooled cost of shared records
    costDatum,          \* the record handed to getPriceVectors
    priced,             \* what getPriceVectors returned
    cli,                \* the metrics backend behind ClusterCosts
    idle                \* locals and return value of ComputeIdleCoefficient

vars == <<pc, xvs, yvs, sumXY, sumYX, cp, opts, costData, pending,
          aggregations, sharedResourceCost, costDatum, priced, cli, idle>>

addVars == <<xvs, yvs, sumXY, sumYX>>
aggVars == <<costData, pending, aggregations, sharedResourceCost>>
priceVars == <<costDatum, priced>>
idleVars == <<cli, idle>>

----------------------------------------------------------------------------
(* Bounds of the model *)

MaxLen == 2         \* longest vector slice handed to addVectors
MaxRecords == 3     \* most records in the costData of one AggregateCostData call

----------------------------------------------------------------------------
(* float64 arithmetic as exact rationals *)

\* The operands of the arithmetic are bound to their values before use
\* (x \in {a}), so that each is evaluated once.

RECURSIVE GCD(_, _)
GCD(a, b) ==
    IF b = 0 THEN a
    ELSE CHOOSE g \in {GCD(y, x % y) : x \in {a}, y \in {b}} : TRUE

Abs(n) == IF n < 0 THEN -n ELSE n

\* n / d in lowest terms with a positive denominator; n / 0 is +Inf, -Inf or NaN
Normalized(n, d) ==
    IF d = 0 THEN <<(IF n > 0 THEN 1 ELSE IF n < 0 THEN -1 ELSE 0), 0>>
    ELSE CHOOSE r \in {<<(IF d < 0 THEN -1 ELSE 1) * (n \div g),
                         (IF d < 0 THEN -1 ELSE 1) * (d \div g)>> :
                           g \in {GCD(Abs(n), Abs(d))}} : TRUE

Rat(n, d) == CHOOSE r \in {Normalized(x, y) : x \in {n}, y \in {d}} : TRUE

Zero == <<0, 1>>
One == <<1, 1>>
RInt(n) == <<n, 1>>

RAdd(a, b) ==
    CHOOSE r \in {Rat(x[1] * y[2] + y[1] * x[2], x[2] * y[2]) : x \in {a}, y \in {b}} : TRUE
RSub(a, b) ==
    CHOOSE r \in {Rat(x[1] * y[2] - y[1] * x[2], x[2] * y[2]) : x \in {a}, y \in {b}} : TRUE
RMul(a, b) ==
    CHOOSE r \in {Rat(x[1] * y[1], x[2] * y[2]) : x \in {a}, y \in {b}} : TRUE
RDiv(a, b) ==
    CHOOSE r \in {Rat(x[1] * y[2], x[2] * y[1]) : x \in {a}, y \in {b}} : TRUE

----------------------------------------------------------------------------
(* Vector arithmetic *)

Vec(t, v) == [Timestamp |-> t, Value |-> v]

\* math.Round(ts/precision) * precision, halves away from zero
roundTimestamp(ts, precision) ==
    IF ts >= 0 THEN ((2 * ts + precision) \div (2 * precision)) * precision
    ELSE -(((2 * (-ts) + precision) \div (2 * precision)) * precision)

RECURSIVE SumValues(_, _)
SumValues(vectors, i) ==
    IF i = 0 THEN Zero ELSE RAdd(SumValues(vectors, i - 1), vectors[i].Value)

totalVector(vectors) == SumValues(vectors, Len(vectors))

\* the two rounding loops of addVectors: non-zero timestamps are rounded in place
RoundInPlace(vs) ==
    [i \in DOMAIN vs |->
        IF vs[i].Timestamp # 0
        THEN [vs[i] EXCEPT !.Timestamp = roundTimestamp(@, 10)]
        ELSE vs[i]]

\* xMap / yMap: timestamp -> value, zero timestamps skipped, a later entry
\* of the slice overwrites an earlier one with the same timestamp
VecMap(vs) ==
    LET keys == {vs[i].Timestamp : i \in {j \in DOMAIN vs : vs[j].Timestamp # 0}}
        last(t) == CHOOSE i \in DOMAIN vs :
                       /\ vs[i].Timestamp = t
                       /\ \A j \in DOMAIN vs : vs[j].Timestamp = t => j <= i
    IN  [t \in keys |-> vs[last(t)].Value]

RECURSIVE StampsOf(_, _, _)
\* the timestamps appended while ranging over vs: every non-zero one that is
\* not a key of skip, once per entry
StampsOf(vs, i, skip) ==
    IF i = 0 THEN <<>>
    ELSE LET rest == StampsOf(vs, i - 1, skip)
             t == vs[i].Timestamp
         IN  IF t = 0 \/ t \in skip THEN rest ELSE Append(rest, t)

AddTimestamps(x, y) ==
    SortSeq(StampsOf(x, Len(x), {}) \o StampsOf(y, Len(y), DOMAIN VecMap(x)),
            LAMBDA a, b : a < b)

\* SumAt with the matching case passing x through instead of summing
SumAtNoSum(xMap, yMap, t) ==
    IF t \in DOMAIN xMap THEN xMap[t]
    ELSE IF t \in DOMAIN yMap THEN yMap[t]
    ELSE Zero

SumAt(xMap, yMap, t) ==
    IF t \in DOMAIN xMap /\ t \in DOMAIN yMap THEN RAdd(xMap[t], yMap[t])
    ELSE IF t \in DOMAIN xMap THEN xMap[t]
    ELSE IF t \in DOMAIN yMap THEN yMap[t]
    ELSE Zero

addVectors(xs, ys) ==
    LET x == RoundInPlace(xs)
        y == RoundInPlace(ys)
        timestamps == AddTimestamps(x, y)
    IN  IF Len(x) = 0 THEN y
        ELSE IF Len(y) = 0 THEN x
        ELSE [i \in 1..Len(timestamps) |->
                 Vec(timestamps[i], SumAt(VecMap(x), VecMap(y), timestamps[i]))]

----------------------------------------------------------------------------
(* addVectors called on caller-owned slices, in both argument orders *)

\* samples that round to bucket 0, that carry no timestamp, that share bucket
\* 10 and that stand alone
Samples == {Vec(1, RInt(1)), Vec(2, RInt(2)), Vec(3, RInt(3)), Vec(0, RInt(1)),
            Vec(10, RInt(3)), Vec(12, RInt(2)), Vec(20, RInt(1))}
Slices == UNION {[1..n -> Samples] : n \in 0..MaxLen}

NoProvider == [enabled |-> FALSE, err |-> FALSE]
NoOpts == [field |-> ""]
NoClient == [fails |-> FALSE]
NoIdle == [ret |-> <<>>]

InitAdd ==
    /\ pc = "add"
    /\ xvs \in Slices
    /\ yvs \in Slices
    /\ sumXY = <<>>
    /\ sumYX = <<>>
    /\ cp = NoProvider
    /\ opts = NoOpts
    /\ costData = <<>>
    /\ pending = {}
    /\ aggregations = <<>>
    /\ sharedResourceCost = Zero
    /\ costDatum = <<>>
    /\ priced = <<>>
    /\ cli = NoClient
    /\ idle = NoIdle

CallAddXY ==
    /\ pc = "add"
    /\ sumXY' = addVectors(xvs, yvs)
    /\ xvs' = RoundInPlace(xvs)
    /\ yvs' = RoundInPlace(yvs)
    /\ pc' = "addSwapped"
    /\ UNCHANGED <<sumYX, cp, opts, aggVars, priceVars, idleVars>>

CallAddYX ==
    /\ pc = "addSwapped"
    /\ sumYX' = addVectors(yvs, xvs)
    /\ xvs' = RoundInPlace(xvs)
    /\ yvs' = RoundInPlace(yvs)
    /\ pc' = "addDone"
    /\ UNCHANGED <<sumXY, cp, opts, aggVars, priceVars, idleVars>>

NextAdd == CallAddXY \/ CallAddYX

SpecAdd == InitAdd /\ [][NextAdd]_vars

----------------------------------------------------------------------------
(* Pricing resolver *)

hoursPerDay == 24
hoursPerMonth == 730

\* strconv.ParseFloat on the price strings that occur: the value and whether
\* the parse failed (a failed parse yields 0)
ParseFloat(s) ==
    CASE s = "0"    -> [val |-> Zero, err |-> FALSE]
      [] s = "0.05" -> [val |-> <<1, 20>>, err |-> FALSE]
      [] s = "0.5"  -> [val |-> <<1, 2>>, err |-> FALSE]
      [] s = "1"    -> [val |-> One, err |-> FALSE]
      [] s = "2"    -> [val |-> RInt(2), err |-> FALSE]
      [] s = "3"    -> [val |-> RInt(3), err |-> FALSE]
      [] s = "4"    -> [val |-> RInt(4), err |-> FALSE]
      [] OTHER      -> [val |-> Zero, err |-> TRUE]

\* cp.GetConfig(): the custom pricing and the load error
GetConfig(p) == [customPricing |-> p.config, err |-> p.err]

\* cloud.CustomPricesEnabled(cp)
CustomPricesEnabled(p) == p.enabled

\* costDatum.NodeData.IsSpot()
IsSpot(node) == node.spot

\* the unit price strings getPriceVectors settles on, before parsing
PriceStrings(p, datum) ==
    LET cfg == GetConfig(p)
        node == datum.NodeData
    IN  IF CustomPricesEnabled(p) /\ ~cfg.err
        THEN IF IsSpot(node)
             THEN [cpu |-> cfg.customPricing.SpotCPU, ram |-> cfg.customPricing.SpotRAM,
                   gpu |-> cfg.customPricing.SpotGPU, pv |-> cfg.customPricing.Storage]
             ELSE [cpu |-> cfg.customPricing.CPU, ram |-> cfg.customPricing.RAM,
                   gpu |-> cfg.customPricing.GPU, pv |-> cfg.customPricing.Storage]
        ELSE [cpu |-> node.VCPUCost, ram |-> node.RAMCost,
              gpu |-> node.GPUCost, pv |-> node.StorageCost]

RateCoeff(rate) ==
    CASE rate = "daily"   -> RInt(hoursPerDay)
      [] rate = "monthly" -> RInt(hoursPerMonth)
      [] OTHER            -> One

\* val.Value / 1024 / 1024 / 1024
GiB(v) == RDiv(RDiv(RDiv(v, RInt(1024)), RInt(1024)), RInt(1024))

\* (value * price * (1 - discount) / idleCoefficient) * rateCoeff
DiscountedCost(value, price, discount, idleCoefficient, rateCoeff) ==
    RMul(RDiv(RMul(RMul(value, price), RSub(One, discount)), idleCoefficient), rateCoeff)

\* PVSampleCost with the compute discount applied to storage as well
PVSampleCostDiscounted(value, cost, discount, idleCoefficient, rateCoeff) ==
    DiscountedCost(GiB(value), cost, discount, idleCoefficient, rateCoeff)

\* ((value / 1024 / 1024 / 1024) * cost / idleCoefficient) * rateCoeff
PVSampleCost(value, cost, discount, idleCoefficient, rateCoeff) ==
    RMul(RDiv(RMul(GiB(value), cost), idleCoefficient), rateCoeff)

\* the unit price of one persistent volume claim; Volume is <<>> (nil) or <<v>>
PVPrice(p, pvcData, pvCost) ==
    IF CustomPricesEnabled(p) THEN pvCost ELSE ParseFloat(pvcData.Volume[1].Cost).val

RECURSIVE PVVectors(_, _, _, _, _, _, _)
\* the pvvs loop over the first i claims: a claim without a volume adds nothing
PVVectors(p, pvcs, i, pvCost, discount, idleCoefficient, rateCoeff) ==
    IF i = 0 THEN <<>>
    ELSE LET rest == PVVectors(p, pvcs, i - 1, pvCost, discount, idleCoefficient, rateCoeff)
             pvcData == pvcs[i]
         IN  IF pvcData.Volume # <<>>
             THEN Append(rest,
                    [k \in DOMAIN pvcData.Values |->
                        Vec(roundTimestamp(pvcData.Values[k].Timestamp, 10),
                            PVSampleCost(pvcData.Values[k].Value,
                                         PVPrice(p, pvcData, pvCost),
                                         discount, idleCoefficient, rateCoeff))])
             ELSE rest

getPriceVectors(p, datum, rate, discount, idleCoefficient) ==
    LET strs == PriceStrings(p, datum)
        cpuCost == ParseFloat(strs.cpu).val
        ramCost == ParseFloat(strs.ram).val
        gpuCost == ParseFloat(strs.gpu).val
        pvCost == ParseFloat(strs.pv).val
        rateCoeff == RateCoeff(rate)
    IN  [cpuv |-> [k \in DOMAIN datum.CPUAllocation |->
                      Vec(roundTimestamp(datum.CPUAllocation[k].Timestamp, 10),
                          DiscountedCost(datum.CPUAllocation[k].Value, cpuCost,
                                         discount, idleCoefficient, rateCoeff))],
         ramv |-> [k \in DOMAIN datum.RAMAllocation |->
                      Vec(roundTimestamp(datum.RAMAllocation[k].Timestamp, 10),
                          DiscountedCost(GiB(datum.RAMAllocation[k].Value), ramCost,
                                         discount, idleCoefficient, rateCoeff))],
         gpuv |-> [k \in DOMAIN datum.GPUReq |->
                      Vec(roundTimestamp(datum.GPUReq[k].Timestamp, 10),
                          DiscountedCost(datum.GPUReq[k].Value, gpuCost,
                                         discount, idleCoefficient, rateCoeff))],
         pvvs |-> PVVectors(p, datum.PVCData, Len(datum.PVCData), pvCost,
                            discount, idleCoefficient, rateCoeff),
         netv |-> datum.NetworkData]

RECURSIVE TotalOfAll(_, _)
\* the sum of totalVector over the first i slices of pvvs
TotalOfAll(pvvs, i) ==
    IF i = 0 THEN Zero ELSE RAdd(TotalOfAll(pvvs, i - 1), totalVector(pvvs[i]))

----------------------------------------------------------------------------
(* Shared-resource classifier *)

\* NewSharedResourceInfo: kube-system is always a shared namespace
NewSharedResourceInfo(shareResources, sharedNamespaces, labelnames, labelvalues) ==
    [ShareResources  |-> shareResources,
     SharedNamespace |-> {sharedNamespaces[i] : i \in DOMAIN sharedNamespaces}
                             \cup {"kube-system"},
     LabelSelectors  |-> [n \in {labelnames[i] : i \in DOMAIN labelnames} |->
                             labelvalues[CHOOSE i \in DOMAIN labelnames :
                                 /\ labelnames[i] = n
                                 /\ \A j \in DOMAIN labelnames :
                                        labelnames[j] = n => j <= i]]]

IsSharedResource(s, datum) ==
    \/ datum.Namespace \in s.SharedNamespace
    \/ \E labelName \in DOMAIN s.LabelSelectors :
           /\ labelName \in DOMAIN datum.Labels
           /\ datum.Labels[labelName] = s.LabelSelectors[labelName]

----------------------------------------------------------------------------
(* Aggregator *)

\* &Aggregation{} with the identity fields aggregateDatum sets
NewAggregation(field, subfields, key) ==
    [Aggregator |-> field, Subfields |-> subfields, Environment |-> key, Cluster |-> "",
     CPUAllocation |-> <<>>, CPUCostVector |-> <<>>, CPURequestVector |-> <<>>,
     RAMAllocation |-> <<>>, RAMCostVector |-> <<>>, RAMRequestVector |-> <<>>,
     PVCostVector |-> <<>>, PVRequestVector |-> <<>>,
     GPUAllocation |-> <<>>, GPUCostVector |-> <<>>, NetworkCostVector |-> <<>>,
     CPUCost |-> Zero, RAMCost |-> Zero, GPUCost |-> Zero, PVCost |-> Zero,
     NetworkCost |-> Zero, SharedCost |-> Zero, TotalCost |-> Zero]

RECURSIVE AddAll(_, _, _)
\* the loop over pvvs: PVCostVector = addVectors(PVCostVector, vectorList)
AddAll(acc, pvvs, i) ==
    IF i = 0 THEN acc ELSE addVectors(AddAll(acc, pvvs, i - 1), pvvs[i])

mergeVectors(p, datum, aggregation, rate, discount, idleCoefficient) ==
    LET pv == getPriceVectors(p, datum, rate, discount, idleCoefficient)
    IN  [aggregation EXCEPT
            !.CPUAllocation = addVectors(datum.CPUAllocation, @),
            !.RAMAllocation = addVectors(datum.RAMAllocation, @),
            !.GPUAllocation = addVectors(datum.GPUReq, @),
            !.CPURequestVector = addVectors(datum.CPUReq, @),
            !.RAMRequestVector = addVectors(datum.RAMReq, @),
            !.CPUCostVector = addVectors(pv.cpuv, @),
            !.RAMCostVector = addVectors(pv.ramv, @),
            !.GPUCostVector = addVectors(pv.gpuv, @),
            !.NetworkCostVector = addVectors(pv.netv, @),
            !.PVCostVector = AddAll(@, pv.pvvs, Len(pv.pvvs))]

\* the slices of the record that mergeVectors hands to addVectors are rounded in place
RoundedDatum(datum) ==
    [datum EXCEPT
        !.CPUAllocation = RoundInPlace(@),
        !.RAMAllocation = RoundInPlace(@),
        !.GPUReq = RoundInPlace(@),
        !.CPUReq = RoundInPlace(@),
        !.RAMReq = RoundInPlace(@),
        !.NetworkData = RoundInPlace(@)]

aggregateDatum(p, aggs, datum, field, subfields, rate, key, discount, idleCoefficient) ==
    LET present == IF key \in DOMAIN aggs THEN aggs
                   ELSE (key :> NewAggregation(field, subfields, key)) @@ aggs
    IN  [present EXCEPT
            ![key] = mergeVectors(p, datum, @, rate, discount, idleCoefficient)]

\* FirstLabel without the break: the last subfield that is a key of the labels
\* decides
LastLabel(labels, subfields, i) ==
    LET hits == {j \in i..Len(subfields) : subfields[j] \in DOMAIN labels}
    IN  IF hits = {} THEN <<>>
        ELSE <<labels[subfields[CHOOSE j \in hits : \A k \in hits : k <= j]]>>

RECURSIVE FirstLabel(_, _, _)
\* the label loop: the value of the first subfield, from index i on, that is a
\* key of the labels, as <<value>>; <<>> when there is none
FirstLabel(labels, subfields, i) ==
    IF i > Len(subfields) THEN <<>>
    ELSE IF subfields[i] \in DOMAIN labels THEN <<labels[subfields[i]]>>
    ELSE FirstLabel(labels, subfields, i + 1)

\* the key a non-shared record is aggregated under, as <<key>>; <<>> when the
\* record is not aggregated
GroupKey(datum, field, subfields) ==
    CASE field = "cluster"    -> <<datum.ClusterID>>
      [] field = "namespace"  -> <<datum.Namespace>>
      [] field = "service"    -> IF Len(datum.Services) > 0
                                 THEN <<datum.Services[1]>> ELSE <<>>
      [] field = "deployment" -> IF Len(datum.Deployments) > 0
                                 THEN <<datum.Deployments[1]>> ELSE <<>>
      [] field = "label"      -> FirstLabel(datum.Labels, subfields, 1)
      [] OTHER                -> <<>>

\* sr != nil && sr.ShareResources && sr.IsSharedResource(costDatum); sr is <<>>
\* (nil) or <<s>>
IsPooled(o, datum) ==
    o.sr # <<>> /\ o.sr[1].ShareResources /\ IsSharedResource(o.sr[1], datum)

\* what a shared record adds to sharedResourceCost
PooledCost(p, datum, o) ==
    LET pv == getPriceVectors(p, datum, o.rate, o.discount, o.idleCoefficient)
    IN  RAdd(RAdd(RAdd(RAdd(totalVector(pv.cpuv), totalVector(pv.ramv)),
                       totalVector(pv.gpuv)), totalVector(pv.netv)),
             TotalOfAll(pv.pvvs, Len(pv.pvvs)))

\* LoopBody without the else: a pooled record goes on to be aggregated
LoopBodyFallThrough(p, o, aggs, shared, datum) ==
    LET key == GroupKey(datum, o.field, o.subfields)
        pool == IF IsPooled(o, datum)
                THEN RAdd(shared, PooledCost(p, datum, o)) ELSE shared
    IN  IF key = <<>>
        THEN [aggs |-> aggs, shared |-> pool, merged |-> FALSE]
        ELSE [aggs |-> aggregateDatum(p, aggs, datum, o.field, o.subfields, o.rate,
                                      key[1], o.discount, o.idleCoefficient),
              shared |-> pool, merged |-> TRUE]

\* one iteration of the range loop over costData, as a function of the loop state
LoopBody(p, o, aggs, shared, datum) ==
    IF IsPooled(o, datum)
    THEN [aggs |-> aggs, shared |-> RAdd(shared, PooledCost(p, datum, o)), merged |-> FALSE]
    ELSE LET key == GroupKey(datum, o.field, o.subfields)
         IN  IF key = <<>>
             THEN [aggs |-> aggs, shared |-> shared, merged |-> FALSE]
             ELSE [aggs |-> aggregateDatum(p, aggs, datum, o.field, o.subfields, o.rate,
                                           key[1], o.discount, o.idleCoefficient),
                   shared |-> shared, merged |-> TRUE]

\* Scaled without the test of the rate
ScaledAnyRate(x, rate, dataCount) ==
    IF dataCount > 0 THEN RDiv(x, RInt(dataCount)) ELSE x

\* x /= float64(dataCount) when a rate is requested and dataCount > 0
Scaled(x, rate, dataCount) ==
    IF rate # "" /\ dataCount > 0 THEN RDiv(x, RInt(dataCount)) ELSE x

\* the time series fields cleared when time series are not requested
Stripped(agg) ==
    [agg EXCEPT !.CPUCostVector = <<>>, !.RAMCostVector = <<>>, !.GPUCostVector = <<>>,
                !.PVCostVector = <<>>, !.NetworkCostVector = <<>>]

\* the body of the closing loop over aggregations, for one aggregation
Finalized(agg, shared, n, o) ==
    LET cpu == Scaled(totalVector(agg.CPUCostVector), o.rate, o.dataCount)
        ram == Scaled(totalVector(agg.RAMCostVector), o.rate, o.dataCount)
        gpu == Scaled(totalVector(agg.GPUCostVector), o.rate, o.dataCount)
        pv == Scaled(totalVector(agg.PVCostVector), o.rate, o.dataCount)
        net == Scaled(totalVector(agg.NetworkCostVector), o.rate, o.dataCount)
        sh == Scaled(RDiv(shared, RInt(n)), o.rate, o.dataCount)
        scalars == [agg EXCEPT !.CPUCost = cpu, !.RAMCost = ram, !.GPUCost = gpu,
                               !.PVCost = pv, !.NetworkCost = net, !.SharedCost = sh,
                               !.TotalCost = RAdd(RAdd(RAdd(RAdd(RAdd(cpu, ram), gpu), pv),
                                                       net), sh)]
    IN  IF o.timeSeries THEN scalars ELSE Stripped(scalars)

----------------------------------------------------------------------------
(* The inputs of AggregateCostData *)

GiBBytes == 1073741824

NodeOnDemand == [VCPUCost |-> "0.05", RAMCost |-> "0.5", GPUCost |-> "2",
                 StorageCost |-> "1", spot |-> FALSE]
NodeSpot == [VCPUCost |-> "1", RAMCost |-> "n/a", GPUCost |-> "3",
             StorageCost |-> "0.5", spot |-> TRUE]

CustomPricing == [CPU |-> "2", SpotCPU |-> "1", RAM |-> "1", SpotRAM |-> "0.5",
                  GPU |-> "4", SpotGPU |-> "3", Storage |-> "3"]

Labels(pairs) == [n \in {q[1] : q \in pairs} |-> (CHOOSE q \in pairs : q[1] = n)[2]]

Datum(ns, cluster, services, deployments, labels, node) ==
    [Namespace |-> ns, ClusterID |-> cluster, Services |-> services,
     Deployments |-> deployments, Labels |-> labels, NodeData |-> node,
     CPUAllocation |-> <<>>, CPUReq |-> <<>>, RAMAllocation |-> <<>>, RAMReq |-> <<>>,
     GPUReq |-> <<>>, PVCData |-> <<>>, NetworkData |-> <<>>]

\* two CPU samples of one 10-second bucket
Workload1 ==
    [Datum("ns-a", "c1", <<"svc1">>, <<"dep1">>,
           Labels({<<"app", "y">>, <<"team", "x">>}), NodeOnDemand)
     EXCEPT !.CPUAllocation = <<Vec(10, RInt(1)), Vec(12, RInt(2))>>,
            !.CPUReq = <<Vec(10, RInt(1))>>,
            !.RAMAllocation = <<Vec(10, RInt(GiBBytes))>>]

Workload2 ==
    [Datum("ns-a", "c1", <<"svc1", "svc2">>, <<>>,
           Labels({<<"team", "x">>}), NodeSpot)
     EXCEPT !.CPUAllocation = <<Vec(10, RInt(5))>>,
            !.RAMReq = <<Vec(10, RInt(GiBBytes))>>,
            !.GPUReq = <<Vec(20, RInt(1))>>]

\* samples without a timestamp, a claim without a volume
Workload3 ==
    [Datum("ns-b", "c2", <<>>, <<"dep2">>, Labels({}), NodeOnDemand)
     EXCEPT !.CPUAllocation = <<Vec(0, RInt(3))>>,
            !.PVCData = <<[Volume |-> <<[Cost |-> "2"]>>,
                           Values |-> <<Vec(10, RInt(GiBBytes))>>],
                          [Volume |-> <<>>,
                           Values |-> <<Vec(10, RInt(GiBBytes))>>]>>,
            !.NetworkData = <<Vec(3, RInt(1))>>]

\* a kube-system workload
Workload4 ==
    [Datum("kube-system", "c1", <<"dns">>, <<"dns">>,
           Labels({<<"app", "dns">>}), NodeOnDemand)
     EXCEPT !.CPUAllocation = <<Vec(10, RInt(2))>>,
            !.RAMAllocation = <<Vec(10, RInt(GiBBytes \div 2))>>,
            !.GPUReq = <<Vec(10, RInt(1))>>,
            !.PVCData = <<[Volume |-> <<[Cost |-> "2"]>>,
                           Values |-> <<Vec(20, RInt(GiBBytes))>>]>>,
            !.NetworkData = <<Vec(10, RInt(1))>>]

\* a workload a label selector can share
Workload5 ==
    [Datum("ns-b", "c2", <<"svc2">>, <<"dep2">>,
           Labels({<<"team", "z">>, <<"app", "y">>}), NodeSpot)
     EXCEPT !.CPUAllocation = <<Vec(0, RInt(1))>>,
            !.GPUReq = <<Vec(20, RInt(2))>>]

Workloads == ("w1" :> Workload1) @@ ("w2" :> Workload2) @@ ("w3" :> Workload3)
                 @@ ("w4" :> Workload4) @@ ("w5" :> Workload5)

CostDataSets ==
    {[id \in S |-> Workloads[id]] :
        S \in {T \in SUBSET DOMAIN Workloads : Cardinality(T) <= MaxRecords}}

Providers == {[enabled |-> e, err |-> x, config |-> CustomPricing] :
                  e \in BOOLEAN, x \in BOOLEAN}

SharingPolicies ==
    {<<>>,
     <<NewSharedResourceInfo(TRUE, <<>>, <<"team">>, <<"z">>)>>,
     <<NewSharedResourceInfo(FALSE, <<"ns-b">>, <<>>, <<>>)>>}

Groupings ==
    {<<f, <<>>>> : f \in {"cluster", "namespace", "service", "deployment", "pod"}}
        \cup {<<"label", sf>> : sf \in {<<"app", "team">>, <<"team", "app">>, <<"team">>}}

Options(field, subfields, dataCount, discount, idleCoefficient, timeSeries, rate, sr) ==
    [field |-> field, subfields |-> subfields, dataCount |-> dataCount,
     discount |-> discount, idleCoefficient |-> idleCoefficient,
     timeSeries |-> timeSeries, rate |-> rate, sr |-> sr]

AggregateOptions ==
    {Options(g[1], g[2], dc, <<1, 5>>, One, ts, r, sr) :
        g \in Groupings, dc \in {0, 2}, ts \in BOOLEAN, r \in {"", "daily"},
        sr \in SharingPolicies}

Init ==
    /\ pc = "loop"
    /\ costData \in CostDataSets
    /\ pending = DOMAIN costData
    /\ aggregations = <<>>
    /\ sharedResourceCost = Zero
    /\ opts \in AggregateOptions
    /\ cp \in {p \in Providers : ~p.err}
    /\ xvs = <<>>
    /\ yvs = <<>>
    /\ sumXY = <<>>
    /\ sumYX = <<>>
    /\ costDatum = <<>>
    /\ priced = <<>>
    /\ cli = NoClient
    /\ idle = NoIdle

\* one iteration of `for _, costDatum := range costData`, in any order
VisitRecord ==
    /\ pc = "loop"
    /\ \E id \in pending :
          LET after == LoopBody(cp, opts, aggregations, sharedResourceCost, costData[id])
          IN  /\ aggregations' = after.aggs
              /\ sharedResourceCost' = after.shared
              /\ costData' = [costData EXCEPT
                                 ![id] = IF after.merged THEN RoundedDatum(@) ELSE @]
              /\ pending' = pending \ {id}
    /\ UNCHANGED <<pc, cp, opts, addVars, priceVars, idleVars>>

\* the closing loop over aggregations and the return
CollapseAndReturn ==
    /\ pc = "loop"
    /\ pending = {}
    /\ aggregations' = [k \in DOMAIN aggregations |->
                           Finalized(aggregations[k], sharedResourceCost,
                                     Cardinality(DOMAIN aggregations), opts)]
    /\ pc' = "done"
    /\ UNCHANGED <<cp, opts, costData, pending, sharedResourceCost, addVars,
                   priceVars, idleVars>>

Next == VisitRecord \/ CollapseAndReturn

Spec == Init /\ [][Next]_vars

----------------------------------------------------------------------------
(* getPriceVectors called on one record *)

PriceOptions ==
    {Options("", <<>>, 0, d, ic, FALSE, r, <<>>) :
        d \in {Zero, <<1, 5>>}, ic \in {One, <<1, 2>>},
        r \in {"", "hourly", "daily", "monthly"}}

InitPrice ==
    /\ pc = "price"
    /\ cp \in Providers
    /\ opts \in PriceOptions
    /\ costDatum \in {Workloads[id] : id \in DOMAIN Workloads}
    /\ priced = <<>>
    /\ xvs = <<>>
    /\ yvs = <<>>
    /\ sumXY = <<>>
    /\ sumYX = <<>>
    /\ costData = <<>>
    /\ pending = {}
    /\ aggregations = <<>>
    /\ sharedResourceCost = Zero
    /\ cli = NoClient
    /\ idle = NoIdle

CallGetPriceVectors ==
    /\ pc = "price"
    /\ priced' = getPriceVectors(cp, costDatum, opts.rate, opts.discount,
                                 opts.idleCoefficient)
    /\ pc' = "priceDone"
    /\ UNCHANGED <<cp, opts, costDatum, addVars, aggVars, idleVars>>

NextPrice == CallGetPriceVectors

SpecPrice == InitPrice /\ [][NextPrice]_vars

----------------------------------------------------------------------------
(* Idle-coefficient calculator *)

\* time.ParseDuration on the window strings that occur: the hours and whether
\* the parse failed
ParseDuration(s) ==
    CASE s = "0h"  -> [hours |-> Zero, err |-> FALSE]
      [] s = "1h"  -> [hours |-> One, err |-> FALSE]
      [] s = "24h" -> [hours |-> RInt(24), err |-> FALSE]
      [] s = "90m" -> [hours |-> <<3, 2>>, err |-> FALSE]
      [] OTHER     -> [hours |-> Zero, err |-> TRUE]

\* ClusterCosts(cli, cp, windowString, offset): the query fails, or each cost
\* comes back as a list holding one [timestamp, value string] pair
ClusterCosts(c) ==
    IF c.fails THEN [totals |-> <<>>, err |-> TRUE]
    ELSE [totals |-> <<[CPUCost |-> <<<<"0", c.cpu>>>>,
                        MemCost |-> <<<<"0", c.mem>>>>,
                        StorageCost |-> <<<<"0", c.storage>>>>]>>,
          err |-> FALSE]

Returned(coef, err) == <<[coef |-> coef, err |-> err]>>

\* lines 89-101 with every ParseFloat failure ignored
CostsParsedUnchecked(totals, discount) ==
    [err |-> FALSE,
     totalClusterCost |->
         RAdd(RAdd(RMul(ParseFloat(totals.CPUCost[1][2]).val, RSub(One, discount)),
                   RMul(ParseFloat(totals.MemCost[1][2]).val, RSub(One, discount))),
              ParseFloat(totals.StorageCost[1][2]).val)]

\* lines 89-101: the three cost strings parsed in turn, the first failure
\* returned, and totalClusterCost
CostsParsed(totals, discount) ==
    LET cpuCost == ParseFloat(totals.CPUCost[1][2])
        memCost == ParseFloat(totals.MemCost[1][2])
        storageCost == ParseFloat(totals.StorageCost[1][2])
    IN  IF cpuCost.err \/ memCost.err \/ storageCost.err
        THEN [err |-> TRUE, totalClusterCost |-> Zero]
        ELSE [err |-> FALSE,
              totalClusterCost |->
                  RAdd(RAdd(RMul(cpuCost.val, RSub(One, discount)),
                            RMul(memCost.val, RSub(One, discount))),
                       storageCost.val)]

\* what one record adds to totalContainerCost
ContainerCost(p, datum, discount) ==
    LET pv == getPriceVectors(p, datum, "", discount, One)
    IN  RAdd(RAdd(RAdd(totalVector(pv.cpuv), totalVector(pv.ramv)), totalVector(pv.gpuv)),
             TotalOfAll(pv.pvvs, Len(pv.pvvs)))

IdleDiscounts == {Zero, <<1, 5>>}

IdleArgs(windowString, discount) == [windowString |-> windowString, discount |-> discount]

CostStrings == {"0", "2", "n/a"}

Backends ==
    {[fails |-> TRUE, cpu |-> "0", mem |-> "0", storage |-> "0"]}
        \cup {[fails |-> FALSE, cpu |-> c, mem |-> m, storage |-> st] :
                 c \in CostStrings, m \in CostStrings, st \in CostStrings}

InitIdle ==
    /\ pc = "idle"
    /\ cp \in {p \in Providers : ~p.err}
    /\ opts \in {IdleArgs(w, d) : w \in {"0h", "1h", "90m", "1 hour"},
                                  d \in IdleDiscounts}
    /\ cli \in Backends
    /\ costData \in {c \in CostDataSets : DOMAIN c \subseteq {"w1", "w3", "w4"}}
    /\ pending = {}
    /\ idle = [windowDuration |-> Zero, totals |-> <<>>,
               totalClusterCostOverWindow |-> Zero, totalContainerCost |-> Zero,
               queries |-> 0, divided |-> FALSE, ret |-> <<>>]
    /\ aggregations = <<>>
    /\ sharedResourceCost = Zero
    /\ xvs = <<>>
    /\ yvs = <<>>
    /\ sumXY = <<>>
    /\ sumYX = <<>>
    /\ costDatum = <<>>
    /\ priced = <<>>

\* lines 81-84
ParseWindow ==
    /\ pc = "idle"
    /\ LET d == ParseDuration(opts.windowString)
       IN  IF d.err
           THEN /\ idle' = [idle EXCEPT !.ret = Returned(Zero, "invalid duration")]
                /\ pc' = "idleDone"
           ELSE /\ idle' = [idle EXCEPT !.windowDuration = d.hours]
                /\ pc' = "idleQuery"
    /\ UNCHANGED <<cp, opts, cli, addVars, aggVars, priceVars>>

\* lines 85-88
QueryClusterCosts ==
    /\ pc = "idleQuery"
    /\ LET r == ClusterCosts(cli)
       IN  IF r.err
           THEN /\ idle' = [idle EXCEPT !.queries = @ + 1,
                                        !.ret = Returned(Zero, "query failed")]
                /\ pc' = "idleDone"
           ELSE /\ idle' = [idle EXCEPT !.queries = @ + 1, !.totals = r.totals]
                /\ pc' = "idleCosts"
    /\ UNCHANGED <<cp, opts, cli, addVars, aggVars, priceVars>>

\* lines 89-106
ParseCosts ==
    /\ pc = "idleCosts"
    /\ LET c == CostsParsed(idle.totals[1], opts.discount)
       IN  IF c.err
           THEN /\ idle' = [idle EXCEPT !.ret = Returned(Zero, "invalid syntax")]
                /\ pc' = "idleDone"
                /\ UNCHANGED pending
           ELSE IF c.totalClusterCost = Zero
           THEN /\ idle' = [idle EXCEPT !.ret = Returned(Zero, "nil")]
                /\ pc' = "idleDone"
                /\ UNCHANGED pending
           ELSE /\ idle' = [idle EXCEPT
                               !.totalClusterCostOverWindow =
                                   RMul(RDiv(c.totalClusterCost, RInt(730)),
                                        idle.windowDuration),
                               !.divided = TRUE]
                /\ pending' = DOMAIN costData
                /\ pc' = "idleSum"
    /\ UNCHANGED <<cp, opts, cli, addVars, costData, aggregations,
                   sharedResourceCost, priceVars>>

\* one iteration of the loop of lines 107-115
SumContainerCost ==
    /\ pc = "idleSum"
    /\ \E id \in pending :
          /\ idle' = [idle EXCEPT !.totalContainerCost =
                         RAdd(@, ContainerCost(cp, costData[id], opts.discount))]
          /\ pending' = pending \ {id}
    /\ UNCHANGED <<pc, cp, opts, cli, addVars, costData, aggregations,
                   sharedResourceCost, priceVars>>

\* line 117
ReturnCoefficient ==
    /\ pc = "idleSum"
    /\ pending = {}
    /\ idle' = [idle EXCEPT !.ret = Returned(RDiv(idle.totalContainerCost,
                                                  idle.totalClusterCostOverWindow),
                                             "nil")]
    /\ pc' = "idleDone"
    /\ UNCHANGED <<cp, opts, cli, addVars, aggVars, priceVars>>

NextIdle ==
    \/ ParseWindow
    \/ QueryClusterCosts
    \/ ParseCosts
    \/ SumContainerCost
    \/ ReturnCoefficient

\* the call is synchronous: the calling goroutine runs it step after step
SpecIdle == InitIdle /\ [][NextIdle]_vars /\ WF_vars(NextIdle)

----------------------------------------------------------------------------
(* Properties *)

\* the (timestamp, value) pairs of a slice, as a set
PairSet(vs) == {<<vs[i].Timestamp, vs[i].Value>> : i \in DOMAIN vs}

BucketsOf(vs) == {roundTimestamp(vs[i].Timestamp, 10) : i \in DOMAIN vs}

RECURSIVE BucketSum(_, _, _)
\* the sum of the values of the first i entries of vs that round to bucket b
BucketSum(vs, i, b) ==
    IF i = 0 THEN Zero
    ELSE IF roundTimestamp(vs[i].Timestamp, 10) = b
         THEN RAdd(BucketSum(vs, i - 1, b), vs[i].Value)
         ELSE BucketSum(vs, i - 1, b)

HasDuplicateBucket(vs) ==
    \E i, j \in DOMAIN vs :
        i # j /\ roundTimestamp(vs[i].Timestamp, 10) = roundTimestamp(vs[j].Timestamp, 10)

\* C3: conservation, totalVector(addVectors(A,B)) = totalVector(A) + totalVector(B)
\* for all A and B, duplicate buckets and zero timestamps included.
C3_Conservation ==
    pc \in {"addSwapped", "addDone"} =>
        totalVector(sumXY) = RAdd(totalVector(xvs), totalVector(yvs))

\* C4: commutativity, addVectors(A,B) and addVectors(B,A) hold the same set of
\* (timestamp, value) pairs, for all A and B.
C4_Commutativity ==
    pc = "addDone" => PairSet(sumXY) = PairSet(sumYX)

\* both slices are non-empty, one holds two entries of one bucket, one holds a
\* zero timestamp, and the two results differ as sequences
C4_Witness ==
    /\ pc = "addDone"
    /\ Len(xvs) > 0 /\ Len(yvs) > 0
    /\ HasDuplicateBucket(xvs)
    /\ \E i \in DOMAIN yvs : yvs[i].Timestamp = 0
    /\ sumXY # <<>>
    /\ sumXY # sumYX

\* C5: bucket collision, the result of addVectors(A,B) holds exactly one entry
\* per 10-second bucket of A and B, bucket 0 included, carrying the sum of all
\* the values of that bucket; [(1,1),(2,2)] + [(2,2),(3,3)] = [(0,8)].
C5_BucketCollision ==
    pc \in {"addSwapped", "addDone"} =>
        /\ {sumXY[i].Timestamp : i \in DOMAIN sumXY} = BucketsOf(xvs) \cup BucketsOf(yvs)
        /\ Len(sumXY) = Cardinality(BucketsOf(xvs) \cup BucketsOf(yvs))
        /\ \A i \in DOMAIN sumXY :
               sumXY[i].Value = RAdd(BucketSum(xvs, Len(xvs), sumXY[i].Timestamp),
                                     BucketSum(yvs, Len(yvs), sumXY[i].Timestamp))

----------------------------------------------------------------------------
(* Properties of AggregateCostData *)

Scalars(agg) == <<agg.CPUCost, agg.RAMCost, agg.GPUCost, agg.PVCost,
                  agg.NetworkCost, agg.SharedCost, agg.TotalCost>>

RECURSIVE RunLoop(_, _)
\* the range loop run to its end over the records ids, in one fixed order
RunLoop(ids, state) ==
    IF ids = {} THEN state
    ELSE LET id == CHOOSE x \in ids : TRUE
         IN  RunLoop(ids \ {id},
                     LoopBody(cp, opts, state.aggs, state.shared, Workloads[id]))

\* what the call returns when the records are visited in that fixed order
FixedOrderResult ==
    LET end == RunLoop(DOMAIN costData, [aggs |-> <<>>, shared |-> Zero, merged |-> FALSE])
    IN  [k \in DOMAIN end.aggs |->
            Finalized(end.aggs[k], end.shared, Cardinality(DOMAIN end.aggs), opts)]

\* C1: the scalar totals of every returned group are the same for every order
\* in which the records are visited: whatever the order taken, they are those
\* of one fixed order.
C1_OrderIndependent ==
    pc = "done" =>
        /\ DOMAIN aggregations = DOMAIN FixedOrderResult
        /\ \A k \in DOMAIN aggregations :
               Scalars(aggregations[k]) = Scalars(FixedOrderResult[k])

RECURSIVE SumSharedCost(_, _)
SumSharedCost(aggs, keys) ==
    IF keys = {} THEN Zero
    ELSE LET k == CHOOSE x \in keys : TRUE
         IN  RAdd(aggs[k].SharedCost, SumSharedCost(aggs, keys \ {k}))

\* C2 as claimed: after a pass the sum of sharedCost over the returned groups
\* equals the pooled total, for every rate, dataCount and number of groups.
C2_SharedSumIsPool ==
    pc = "done" => SumSharedCost(aggregations, DOMAIN aggregations) = sharedResourceCost

\* C2 as amended: with at least one group the sum of sharedCost is the pooled
\* total, divided by dataCount when a rate is set and dataCount > 0; with no
\* group the sum is 0 whatever was pooled.
C2_SharedSumAmended ==
    pc = "done" =>
        SumSharedCost(aggregations, DOMAIN aggregations) =
            IF DOMAIN aggregations = {} THEN Zero
            ELSE IF opts.rate # "" /\ opts.dataCount > 0
                 THEN RDiv(sharedResourceCost, RInt(opts.dataCount))
                 ELSE sharedResourceCost

\* two groups share a pooled cost that was scaled to a rate
C2_Witness ==
    /\ pc = "done"
    /\ Cardinality(DOMAIN aggregations) >= 2
    /\ sharedResourceCost # Zero
    /\ opts.rate = "daily" /\ opts.dataCount = 2
    /\ \A k \in DOMAIN aggregations : aggregations[k].SharedCost # Zero

\* C6: returned without time series requested, an Aggregation holds none of its
\* cost and request vector sequences.
C6_NoTimeSeries ==
    pc = "done" /\ ~opts.timeSeries =>
        \A k \in DOMAIN aggregations :
            /\ aggregations[k].CPUCostVector = <<>>
            /\ aggregations[k].CPURequestVector = <<>>
            /\ aggregations[k].RAMCostVector = <<>>
            /\ aggregations[k].RAMRequestVector = <<>>
            /\ aggregations[k].PVCostVector = <<>>
            /\ aggregations[k].PVRequestVector = <<>>
            /\ aggregations[k].GPUCostVector = <<>>
            /\ aggregations[k].NetworkCostVector = <<>>

\* the groups whose Aggregation an iteration created or changed
Touched == {k \in DOMAIN aggregations' :
               k \notin DOMAIN aggregations \/ aggregations'[k] # aggregations[k]}

\* C10: every iteration of the loop handles its record in exactly one way: a
\* record is pooled exactly when sharing is enabled and it is shared, and then
\* no group is created or changed; any other record leaves the pool alone and
\* is merged into the one group of its key, or skipped when it has no key.
C10_OneWayPerRecord ==
    [][pending' # pending =>
          /\ Cardinality(pending \ pending') = 1
          /\ pending' \subseteq pending
          /\ LET datum == costData[CHOOSE id \in pending \ pending' : TRUE]
                 key == GroupKey(datum, opts.field, opts.subfields)
             IN  IF /\ opts.sr # <<>>
                    /\ opts.sr[1].ShareResources
                    /\ IsSharedResource(opts.sr[1], datum)
                 THEN /\ aggregations' = aggregations
                      /\ sharedResourceCost' =
                             RAdd(sharedResourceCost, PooledCost(cp, datum, opts))
                 ELSE /\ sharedResourceCost' = sharedResourceCost
                      /\ DOMAIN aggregations \subseteq DOMAIN aggregations'
                      /\ IF key = <<>> THEN aggregations' = aggregations
                         ELSE /\ key[1] \in DOMAIN aggregations'
                              /\ Touched \subseteq {key[1]}]_vars

\* one pass pooled a record, merged one and skipped one
C10_Witness ==
    /\ pc = "loop"
    /\ pending = {}
    /\ DOMAIN costData = {"w1", "w3", "w4"}
    /\ opts.field = "service"
    /\ opts.sr # <<>> /\ opts.sr[1].ShareResources
    /\ sharedResourceCost # Zero
    /\ DOMAIN aggregations = {"svc1"}

\* the subfields, by position, that are keys of the record's label map
LabelHits(datum) ==
    {j \in DOMAIN opts.subfields : opts.subfields[j] \in DOMAIN datum.Labels}

\* C11: grouping by "label", an iteration over a record that is not shared
\* creates or changes exactly the group named by the record's value for the
\* first subfield, in the order given, that is a key of its label map, whatever
\* the later subfields are; a record none of whose subfields is a key of its
\* label map creates and changes no group.
C11_FirstLabelWins ==
    [][pending' # pending /\ opts.field = "label" =>
          LET datum == costData[CHOOSE id \in pending \ pending' : TRUE]
              hits == LabelHits(datum)
          IN  ~IsPooled(opts, datum) =>
                  IF hits = {} THEN aggregations' = aggregations
                  ELSE LET first == CHOOSE j \in hits : \A k \in hits : j <= k
                           key == datum.Labels[opts.subfields[first]]
                       IN  /\ Touched = {key}
                           /\ aggregations'[key].Environment = key
                           /\ aggregations'[key].Aggregator = "label"]_vars

\* grouped by app before team: a record with both labels went under its app, a
\* record with only a team under its team, a record without labels nowhere
C11_Witness ==
    /\ pc = "loop"
    /\ pending = {}
    /\ opts.field = "label"
    /\ opts.subfields = <<"app", "team">>
    /\ opts.sr = <<>>
    /\ DOMAIN costData = {"w1", "w2", "w3"}
    /\ DOMAIN aggregations = {"x", "y"}
    /\ Len(aggregations["y"].CPUAllocation) > 0
    /\ Len(aggregations["x"].RAMRequestVector) > 0

----------------------------------------------------------------------------
(* Properties of getPriceVectors *)

\* the same provider with custom pricing not enabled
NotEnabled(p) == [p EXCEPT !.enabled = FALSE]

\* C7: custom prices replace the node-reported ones only when custom pricing is
\* enabled and the configuration loads; when the load fails getPriceVectors
\* returns what it returns with custom pricing not enabled, for CPU, RAM, GPU
\* and every persistent volume.
C7_FailedLoadFallsBack ==
    pc = "priceDone" =>
        LET plain == getPriceVectors(NotEnabled(cp), costDatum, opts.rate,
                                     opts.discount, opts.idleCoefficient)
        IN  /\ priced # plain => cp.enabled /\ ~cp.err
            /\ cp.err => priced = plain

\* value * unitPrice * (1 - discount) * rateCoeff / idleCoefficient, with the
\* rate table of the claim
ClaimedCost(value, unitPrice, discount, idleCoefficient, rate) ==
    RDiv(RMul(RMul(RMul(value, unitPrice), RSub(One, discount)),
              RInt(IF rate = "daily" THEN 24 ELSE IF rate = "monthly" THEN 730 ELSE 1)),
         idleCoefficient)

InGiB(v) == RDiv(v, RInt(1073741824))

VolumeClaims(datum) == SelectSeq(datum.PVCData, LAMBDA c : c.Volume # <<>>)

\* the samples of CPU, RAM and GPU are priced as the claim says
ComputePricedAsClaimed ==
    LET strs == PriceStrings(cp, costDatum)
    IN  /\ DOMAIN priced.cpuv = DOMAIN costDatum.CPUAllocation
        /\ DOMAIN priced.ramv = DOMAIN costDatum.RAMAllocation
        /\ DOMAIN priced.gpuv = DOMAIN costDatum.GPUReq
        /\ \A k \in DOMAIN priced.cpuv :
               priced.cpuv[k].Value =
                   ClaimedCost(costDatum.CPUAllocation[k].Value, ParseFloat(strs.cpu).val,
                               opts.discount, opts.idleCoefficient, opts.rate)
        /\ \A k \in DOMAIN priced.ramv :
               priced.ramv[k].Value =
                   ClaimedCost(InGiB(costDatum.RAMAllocation[k].Value),
                               ParseFloat(strs.ram).val,
                               opts.discount, opts.idleCoefficient, opts.rate)
        /\ \A k \in DOMAIN priced.gpuv :
               priced.gpuv[k].Value =
                   ClaimedCost(costDatum.GPUReq[k].Value, ParseFloat(strs.gpu).val,
                               opts.discount, opts.idleCoefficient, opts.rate)

\* the samples of every claim with a volume are priced with the given discount
VolumesPricedWith(discount) ==
    LET claims == VolumeClaims(costDatum)
        pvCost == ParseFloat(PriceStrings(cp, costDatum).pv).val
    IN  /\ Len(priced.pvvs) = Len(claims)
        /\ \A j \in DOMAIN claims :
               /\ DOMAIN priced.pvvs[j] = DOMAIN claims[j].Values
               /\ \A k \in DOMAIN claims[j].Values :
                      priced.pvvs[j][k].Value =
                          ClaimedCost(InGiB(claims[j].Values[k].Value),
                                      PVPrice(cp, claims[j], pvCost),
                                      discount, opts.idleCoefficient, opts.rate)

\* C8 as claimed: every priced sample of CPU, RAM, GPU and of each persistent
\* volume costs value * unitPrice * (1-discount) / idleCoefficient * rateCoeff,
\* RAM and volume values first divided by 2^30.
C8_EverySampleDiscounted ==
    pc = "priceDone" => ComputePricedAsClaimed /\ VolumesPricedWith(opts.discount)

\* C8 as amended: the formula holds for CPU, RAM and GPU; a persistent volume
\* sample costs value / 2^30 * unitPrice / idleCoefficient * rateCoeff, the
\* discount not applied.
C8_VolumesNotDiscounted ==
    pc = "priceDone" => ComputePricedAsClaimed /\ VolumesPricedWith(Zero)

\* a record with CPU, RAM, GPU and volume samples priced at a monthly rate
\* with a discount and an idle coefficient
C8_Witness ==
    /\ pc = "priceDone"
    /\ opts.rate = "monthly" /\ opts.discount # Zero /\ opts.idleCoefficient # One
    /\ \E k \in DOMAIN priced.cpuv : priced.cpuv[k].Value # Zero
    /\ \E k \in DOMAIN priced.ramv : priced.ramv[k].Value # Zero
    /\ \E k \in DOMAIN priced.gpuv : priced.gpuv[k].Value # Zero
    /\ \E j \in DOMAIN priced.pvvs : \E k \in DOMAIN priced.pvvs[j] :
           priced.pvvs[j][k].Value # Zero

----------------------------------------------------------------------------
(* Properties of ComputeIdleCoefficient *)

CostStringsMalformed ==
    \E str \in {cli.cpu, cli.mem, cli.storage} : str \notin {"0", "2"}

ClusterCostIsZero == cli.cpu = "0" /\ cli.mem = "0" /\ cli.storage = "0"

\* what has been returned, and after how many queries, at every point of a call
IdleReturnIsRight ==
    /\ idle.queries <= 1
    /\ pc # "idleDone" => idle.ret = <<>>
    /\ pc = "idleDone" =>
           /\ Len(idle.ret) = 1
           /\ idle.ret[1].err # "nil" => idle.ret[1].coef = Zero
           /\ IF opts.windowString \notin {"0h", "1h", "90m"}
              THEN idle.ret[1].err = "invalid duration" /\ idle.queries = 0
              ELSE IF cli.fails
              THEN idle.ret[1].err = "query failed" /\ idle.queries = 1
              ELSE IF CostStringsMalformed
              THEN idle.ret[1].err = "invalid syntax" /\ idle.queries = 1
              ELSE /\ idle.ret[1].err = "nil"
                   /\ idle.queries = 1
                   /\ ClusterCostIsZero =>
                          idle.ret[1].coef = Zero /\ ~idle.divided

====
